---- MODULE Spec2Model ----
(***************************************************************************)
(* OCRex batch driver: main() of ocrex/main.py submits one process_file    *)
(* task per discovered PDF to a multiprocessing.Pool, waits for each       *)
(* result and advances a progress counter.  process_file rasterizes the    *)
(* document, preprocesses every page, reassembles the pages into           *)
(* <name>_preprocessed.pdf, runs the recognition engine and removes the    *)
(* paths it recorded in temp_files.  Storage is modelled as a map from     *)
(* paths to a content tag.                                                 *)
(***************************************************************************)
EXTENDS Integers, Sequences, FiniteSets, TLC

\* Largest number of pages the rasterizer returns for one document.
MaxPages == 1
\* Largest value of --workers tried.
MaxWorkers == 2
\* Number of pages of the document in the batch run beside the direct calls.
FnPages == 2
\* Largest number of tasks handed to run_ocr_batch, and of images handed to
\* preprocess_images_concurrent.
MaxBatch == 2
\* Largest number of lines in the text image_to_osd returns.
MaxOsdLines == 2
\* Largest number of lines cv2.HoughLines returns.
MaxHoughLines == 2

VARIABLES
    config,     \* the Config built from the command line
    dirs,       \* directories that exist
    fs,         \* storage: path -> content tag, for the files that exist
    listing,    \* os.listdir(config.input_dir), in the order it returns names
    mainPc,     \* position of main()
    pdf_files,  \* main's list of discovered documents
    tasks,      \* one record per apply_async(process_file, ...) call
    waitIdx,    \* index of the result main waits for next
    progress,   \* the rich progress counter
    hung,       \* tasks whose call of the recognition engine never returns
    call        \* a direct call of one library function: arguments and result

vars == <<config, dirs, fs, listing, mainPc, pdf_files, tasks, waitIdx, progress,
          hung, call>>

----------------------------------------------------------------------------
\* Paths.  A file name is a sequence of tokens cut so that the substring
\* ".pdf" only ever occurs as a whole token; a path is a directory and a name.
\* A name from tempfile.NamedTemporaryFile is identified by the task that asked
\* for it and a serial number: the OS hands out a name that does not exist.

NoPath == [dir |-> "none", name |-> <<>>, owner |-> 0, n |-> 0]

\* os.path.join(dir, name)
JoinPath(dir, name) == [dir |-> dir, name |-> name, owner |-> 0, n |-> 0]

\* tempfile.NamedTemporaryFile(delete=False, suffix=".png").name
TempPath(i, k) == [dir |-> "tmp", name |-> <<"tmp", ".png">>, owner |-> i, n |-> k]

\* str.lower() on one token
LowerTok(tok) ==
    CASE tok = ".PDF" -> ".pdf"
      [] tok = "X"    -> "x"
      [] OTHER        -> tok

\* f.lower().endswith(".pdf")
EndsWithPdf(name) == Len(name) > 0 /\ LowerTok(name[Len(name)]) = ".pdf"

\* name.replace(".pdf", new): every occurrence, case-sensitive
RECURSIVE ReplacePdf(_, _)
ReplacePdf(name, new) ==
    IF name = <<>> THEN <<>>
    ELSE (IF Head(name) = ".pdf" THEN new ELSE <<Head(name)>>)
             \o ReplacePdf(Tail(name), new)

\* pdf_file.replace(".pdf", "_preprocessed.pdf")
PreprocessedPath(pdf_file) ==
    [pdf_file EXCEPT !.name = ReplacePdf(pdf_file.name, <<"_preprocessed", ".pdf">>)]

\* os.path.join(config.output_dir, os.path.basename(pdf_file).replace(".pdf", "_ocr.pdf"))
OutputPath(cfg, pdf_file) ==
    JoinPath(cfg.output_dir, ReplacePdf(pdf_file.name, <<"_ocr", ".pdf">>))

Range(s) == {s[k] : k \in 1..Len(s)}

----------------------------------------------------------------------------
\* Storage.

WriteFile(f, p, c) == [q \in (DOMAIN f) \cup {p} |-> IF q = p THEN c ELSE f[q]]
RemoveFile(f, p) == [q \in (DOMAIN f) \ {p} |-> f[q]]
Exists(f, p) == p \in DOMAIN f

\* What a file holds: the kind of content and, for a document, its page count.
Content(kind, pages) == [kind |-> kind, pages |-> pages]

\* A document the rasterizer or the recognition engine can read.
ReadablePdf(f, p) ==
    Exists(f, p) /\ f[p].kind \in {"original", "preprocessed", "ocr"}
\* An image cv2.imread / PIL.Image.open can decode.
LoadableImage(f, p) == Exists(f, p) /\ f[p].kind = "image"

----------------------------------------------------------------------------
\* The candidate contents of the input directory, as listdir returns them.

Entry(name, content) == [name |-> name, content |-> content]

InputListings ==
    { <<Entry(<<"a", ".pdf">>, Content("original", MaxPages)),
        Entry(<<"b", ".pdf">>, Content("original", 1)),
        Entry(<<"c", ".pdf">>, Content("corrupt", 0))>>,
      <<Entry(<<"c", ".pdf">>, Content("corrupt", 0)),
        Entry(<<"a", ".pdf">>, Content("original", 1))>>,
      <<Entry(<<"X", ".PDF">>, Content("original", 1)),
        Entry(<<"notes", ".txt">>, Content("text", 0))>>,
      <<Entry(<<"a", ".pdf">>, Content("original", 1)),
        Entry(<<"a", "_preprocessed", ".pdf">>, Content("original", 1)),
        Entry(<<"c", ".pdf">>, Content("corrupt", 0))>>,
      <<Entry(<<"e", ".pdf">>, Content("original", 0)),
        Entry(<<"notes", ".txt">>, Content("text", 0))>>,
      <<Entry(<<"notes", ".txt">>, Content("text", 0))>> }

\* config.py.  A number handed to int(): a Python int, or a float given in
\* tenths (25 is 2.5).
PyInt(n) == [type |-> "int", val |-> n]
PyFloat(t) == [type |-> "float", val |-> t]

\* int(v): an int is kept, a float is truncated towards zero.
IntOf(v) ==
    IF v.type = "int" THEN v.val
    ELSE IF v.val >= 0 THEN v.val \div 10 ELSE -((-v.val) \div 10)

\* The keywords Config.__init__ reads.
ConfigKeys ==
    {"input_dir", "output_dir", "workers", "enable_preprocessing", "deskew",
     "denoise", "optimize_level", "pdf_dpi", "verbose"}

\* **kwargs: the keywords that are passed, and a value for each key (the
\* value of a keyword that is not passed is never read).
Kwargs(passed, val) == [passed |-> passed, val |-> val]

\* kwargs.get(key, default)
KwargsGet(kwargs, key, default) ==
    IF key \in kwargs.passed THEN kwargs.val[key] ELSE default

\* The slip of clamping the worker count to at least one.
ConfigInit_Clamped(kwargs) ==
    LET w == IntOf(KwargsGet(kwargs, "workers", PyInt(4)))
    IN  [input_dir |-> KwargsGet(kwargs, "input_dir", "cwd/input"),
         output_dir |-> KwargsGet(kwargs, "output_dir", "cwd/output"),
         workers |-> IF w < 1 THEN 1 ELSE w,
         enable_preprocessing |-> KwargsGet(kwargs, "enable_preprocessing", TRUE),
         deskew |-> KwargsGet(kwargs, "deskew", TRUE),
         denoise |-> KwargsGet(kwargs, "denoise", TRUE),
         optimize_level |-> IntOf(KwargsGet(kwargs, "optimize_level", PyInt(1))),
         pdf_dpi |-> IntOf(KwargsGet(kwargs, "pdf_dpi", PyInt(300))),
         verbose |-> KwargsGet(kwargs, "verbose", FALSE)]

\* Config.__init__(**kwargs)
ConfigInit(kwargs) ==
    [input_dir |-> KwargsGet(kwargs, "input_dir", "cwd/input"),
     output_dir |-> KwargsGet(kwargs, "output_dir", "cwd/output"),
     workers |-> IntOf(KwargsGet(kwargs, "workers", PyInt(4))),
     enable_preprocessing |-> KwargsGet(kwargs, "enable_preprocessing", TRUE),
     deskew |-> KwargsGet(kwargs, "deskew", TRUE),
     denoise |-> KwargsGet(kwargs, "denoise", TRUE),
     optimize_level |-> IntOf(KwargsGet(kwargs, "optimize_level", PyInt(1))),
     pdf_dpi |-> IntOf(KwargsGet(kwargs, "pdf_dpi", PyInt(300))),
     verbose |-> KwargsGet(kwargs, "verbose", FALSE)]

\* main(), lines 152-162: every keyword is passed, from the parsed arguments.
\* The options the model does not vary keep argparse's defaults.
MainKwargs(input_dir, output_dir, workers, enable_preprocessing, deskew, denoise) ==
    Kwargs(ConfigKeys,
           [input_dir |-> input_dir, output_dir |-> output_dir,
            workers |-> PyInt(workers),
            enable_preprocessing |-> enable_preprocessing,
            deskew |-> deskew, denoise |-> denoise,
            optimize_level |-> PyInt(1), pdf_dpi |-> PyInt(300),
            verbose |-> FALSE])

Configs ==
    {ConfigInit(MainKwargs("in", out, w, pre, TRUE, TRUE)) :
        out \in {"in", "out"}, w \in 1..MaxWorkers, pre \in BOOLEAN}

\* No library function is being called directly.
NoCall == [fn |-> "none", pc |-> "none", arg |-> <<>>, result |-> <<>>]

Terminal == {"DONE", "FAILED"}

\* The state main() starts in, for the given configurations and listings.
BatchInit(configs, listings) ==
    /\ config \in configs
    /\ \/ /\ dirs = {"tmp"}
          /\ listing = <<>>
       \/ /\ dirs = {"tmp", "in"}
          /\ listing \in listings
    /\ fs = [p \in {JoinPath("in", listing[k].name) : k \in 1..Len(listing)} |->
                (CHOOSE e \in Range(listing) : JoinPath("in", e.name) = p).content]
    /\ mainPc = "start"
    /\ pdf_files = <<>>
    /\ tasks = <<>>
    /\ waitIdx = 1
    /\ progress = 0

Init ==
    /\ BatchInit(Configs, InputListings)
    /\ hung = {}
    /\ call = NoCall

----------------------------------------------------------------------------
\* The external collaborators and the helpers of utils.py and preprocessor.py,
\* as functions of the storage and of the outcome the environment picks.

\* Angles detect_rotation hands to rotate_image: none, a quarter turn, and a
\* value outside rotation_mappings.
DetectedAngles == {0, 90, 315}

\* What a write leaves behind: a decodable image, or a file nothing can decode.
Written == {"image", "bad"}

\* pdf_to_images: every page is saved to a fresh temporary file.  last is the
\* fate of the last page: saved, saved but undecodable, or image.save raised
\* after NamedTemporaryFile had created the file.
PdfToImages(f, pdf_path, i, base, last) ==
    IF ~ReadablePdf(f, pdf_path)
    THEN [raised |-> TRUE, fs |-> f, image_files |-> <<>>, made |-> {}]
    ELSE LET n == f[pdf_path].pages
             files == [k \in 1..n |-> TempPath(i, base + k)]
             content(q) == IF q.n = base + n /\ last # "image"
                           THEN Content("bad", 0) ELSE Content("image", 0)
             f2 == [q \in (DOMAIN f) \cup Range(files) |->
                       IF q \in Range(files) THEN content(q) ELSE f[q]]
         IN  [raised |-> (n >= 1 /\ last = "raise"), fs |-> f2,
              image_files |-> files, made |-> Range(files)]

\* The slip of saving the rotated image over the input.
RotateImage_InPlace(f, image_path, angle, new_path, written) ==
    IF angle = 0 THEN [fs |-> f, path |-> image_path]
    ELSE IF ~LoadableImage(f, image_path) THEN [fs |-> f, path |-> image_path]
    ELSE IF angle \in {90, 180, 270}
         THEN [fs |-> WriteFile(f, image_path, Content(written, 0)), path |-> image_path]
         ELSE [fs |-> f, path |-> image_path]

\* rotate_image: the path of the image to go on with, and the storage after.
RotateImage(f, image_path, angle, new_path, written) ==
    IF angle = 0 THEN [fs |-> f, path |-> image_path]
    ELSE IF ~LoadableImage(f, image_path) THEN [fs |-> f, path |-> image_path]
    ELSE IF angle \in {90, 180, 270}
         THEN [fs |-> WriteFile(f, new_path, Content(written, 0)), path |-> new_path]
         ELSE [fs |-> f, path |-> image_path]

\* _process_single_image with auto_rotate=True (preprocess_image delegates to it)
ProcessSingleImage(f, image_path, i, base, angle, rotW, outW) ==
    LET rot == RotateImage(f, image_path, angle, TempPath(i, base + 1), rotW)
        rotated == IF rot.path # image_path THEN {rot.path} ELSE {}
        out == TempPath(i, base + Cardinality(rotated) + 1)
    IN  IF ~LoadableImage(rot.fs, rot.path)
        THEN [raised |-> TRUE, fs |-> rot.fs, path |-> NoPath, made |-> rotated]
        ELSE [raised |-> FALSE, fs |-> WriteFile(rot.fs, out, Content(outW, 0)),
              path |-> out,
              made |-> rotated \cup {out}]

\* Lines 117-131, the deskew stage: whether the image is rotated, and by what
\* angle.  foreground: np.where(gray > 0) finds a pixel; a: the angle
\* cv2.minAreaRect reports, in whole degrees.
DeskewRotation(foreground, a) ==
    IF ~foreground THEN [rotated |-> FALSE, angle |-> 0]
    ELSE [rotated |-> TRUE, angle |-> IF a < -45 THEN -(90 + a) ELSE -a]

\* The slip of deskewing before denoising.
PageStages_DeskewFirst(loadable, deskew, denoise, auto_rotate) ==
    (IF auto_rotate THEN <<"orientation", "rotation">> ELSE <<>>)
        \o (IF ~loadable THEN <<"raise">>
            ELSE <<"grayscale">>
                     \o (IF deskew THEN <<"deskew">> ELSE <<>>)
                     \o (IF denoise THEN <<"denoise">> ELSE <<>>)
                     \o <<"persist">>)

\* _process_single_image, lines 105-134: the stages it runs, in the order it
\* runs them.  loadable: cv2.imread decodes the (possibly rotated) image.
PageStages(loadable, deskew, denoise, auto_rotate) ==
    (IF auto_rotate THEN <<"orientation", "rotation">> ELSE <<>>)
        \o (IF ~loadable THEN <<"raise">>
            ELSE <<"grayscale">>
                     \o (IF denoise THEN <<"denoise">> ELSE <<>>)
                     \o (IF deskew THEN <<"deskew">> ELSE <<>>)
                     \o <<"persist">>)

\* The slip of composing the pages last to first.
ImagesToPdf_Reversed(f, image_paths, output_pdf_path) ==
    LET image_list == SelectSeq(image_paths, LAMBDA p : LoadableImage(f, p))
        n == Len(image_list)
    IN  IF image_paths = <<>> \/ image_list = <<>>
        THEN [raised |-> TRUE, fs |-> f, pages |-> <<>>]
        ELSE [raised |-> FALSE,
              fs |-> WriteFile(f, output_pdf_path, Content("preprocessed", n)),
              pages |-> [k \in 1..n |-> image_list[n + 1 - k]]]

\* The slip of composing whatever opened, even nothing, without a guard.
ImagesToPdf_Unguarded(f, image_paths, output_pdf_path) ==
    LET image_list == SelectSeq(image_paths, LAMBDA p : LoadableImage(f, p))
    IN  [raised |-> FALSE,
         fs |-> WriteFile(f, output_pdf_path,
                          Content("preprocessed", Len(image_list))),
         pages |-> image_list]

\* images_to_pdf: the images that open are composed, in order, into the output.
ImagesToPdf(f, image_paths, output_pdf_path) ==
    LET image_list == SelectSeq(image_paths, LAMBDA p : LoadableImage(f, p))
    IN  IF image_paths = <<>> \/ image_list = <<>>
        THEN [raised |-> TRUE, fs |-> f, pages |-> <<>>]
        ELSE [raised |-> FALSE,
              fs |-> WriteFile(f, output_pdf_path,
                               Content("preprocessed", Len(image_list))),
              pages |-> image_list]

\* The slip of logging the engine's failure and returning normally.
RunOcr_Swallow(f, input_pdf, output_pdf, engineOk) ==
    IF ReadablePdf(f, input_pdf) /\ engineOk
    THEN [raised |-> FALSE,
          fs |-> WriteFile(f, output_pdf, Content("ocr", f[input_pdf].pages))]
    ELSE [raised |-> FALSE, fs |-> f]

\* run_ocr: ocrmypdf reads input_pdf and writes output_pdf, or raises.
RunOcr(f, input_pdf, output_pdf, engineOk) ==
    IF ReadablePdf(f, input_pdf) /\ engineOk
    THEN [raised |-> FALSE,
          fs |-> WriteFile(f, output_pdf, Content("ocr", f[input_pdf].pages))]
    ELSE [raised |-> TRUE, fs |-> f]

\* os.remove(p) fails when p does not exist or the OS refuses (p in bad).
RemoveFails(f, p, bad) == ~Exists(f, p) \/ p \in bad

\* cleanup_temp_files: every path is tried in order, a failure is only logged.
RECURSIVE CleanupFrom(_, _, _, _)
CleanupFrom(f, file_paths, bad, acc) ==
    IF file_paths = <<>> THEN [acc EXCEPT !.fs = f, !.raised = FALSE]
    ELSE LET p == Head(file_paths)
         IN  IF RemoveFails(f, p, bad)
             THEN CleanupFrom(f, Tail(file_paths), bad,
                      [acc EXCEPT !.attempted = Append(@, p), !.failed = @ \cup {p}])
             ELSE CleanupFrom(RemoveFile(f, p), Tail(file_paths), bad,
                      [acc EXCEPT !.attempted = Append(@, p), !.removed = @ \cup {p}])

\* The slip of letting the first failed removal escape: the loop stops there.
RECURSIVE CleanupTempFiles_Raising(_, _, _)
CleanupTempFiles_Raising(f, file_paths, bad) ==
    IF file_paths = <<>>
    THEN [fs |-> f, attempted |-> <<>>, removed |-> {}, failed |-> {}, raised |-> FALSE]
    ELSE LET p == Head(file_paths)
         IN  IF RemoveFails(f, p, bad)
             THEN [fs |-> f, attempted |-> <<p>>, removed |-> {}, failed |-> {p},
                   raised |-> TRUE]
             ELSE LET r == CleanupTempFiles_Raising(RemoveFile(f, p), Tail(file_paths), bad)
                  IN  [r EXCEPT !.attempted = <<p>> \o @, !.removed = @ \cup {p}]

CleanupTempFiles(f, file_paths, bad) ==
    CleanupFrom(f, file_paths, bad,
                [fs |-> f, attempted |-> <<>>, removed |-> {}, failed |-> {},
                 raised |-> FALSE])

\* The sets of paths the OS may refuse to remove that the model tries.
BadSets(file_paths) ==
    IF file_paths = <<>> THEN {{}}
    ELSE {{}, {file_paths[1]}, Range(file_paths)}

----------------------------------------------------------------------------
\* detect_rotation, preprocessor.py lines 19-65.

SeqsUpTo(S, n) == UNION {[1..k -> S] : k \in 0..n}

\* What follows the last colon of a line: text int() accepts, or text it
\* rejects with ValueError.
IntText(n) == [int |-> TRUE, val |-> n]
BadText == [int |-> FALSE, val |-> 0]

\* One line of the text image_to_osd returns.  "Rotate:" occurs in the line
\* exactly when its key is Rotate.
OsdLine(key, value) == [key |-> key, value |-> value]

OsdLines ==
    {OsdLine("Script", BadText), OsdLine("Rotate", BadText)}
        \cup {OsdLine("Rotate", IntText(n)) : n \in {0, 90, 270, 45, -90, 450}}

\* What pytesseract.image_to_osd does: it raises, or it returns lines of text.
OsdOutcomes ==
    {[raised |-> TRUE, lines |-> <<>>]}
        \cup {[raised |-> FALSE, lines |-> l] : l \in SeqsUpTo(OsdLines, MaxOsdLines)}

\* Lines 28-37: the first line holding "Rotate:" decides; int() may raise.
RECURSIVE ParseOsd(_)
ParseOsd(lines) ==
    IF lines = <<>> THEN [kind |-> "none", angle |-> 0]
    ELSE IF Head(lines).key = "Rotate"
         THEN IF Head(lines).value.int
              THEN [kind |-> "angle", angle |-> (360 - Head(lines).value.val) % 360]
              ELSE [kind |-> "raised", angle |-> 0]
         ELSE ParseOsd(Tail(lines))

\* The image the fallback reads: whether cv2.imread decodes it, and the theta
\* of each line cv2.HoughLines finds, in whole degrees (none: no line).
HoughThetas == {0, 82, 90, 97, 180, 270}
FallbackImages ==
    {[loadable |-> FALSE, thetas |-> <<>>]}
        \cup {[loadable |-> TRUE, thetas |-> t] : t \in SeqsUpTo(HoughThetas, MaxHoughLines)}

\* Twice np.median(s), for a non-empty s: the middle element, or the mean of
\* the two middle elements.
Median2(s) ==
    LET o == SortSeq(s, LAMBDA a, b : a < b)
        n == Len(o)
    IN  IF n % 2 = 1 THEN 2 * o[(n + 1) \div 2] ELSE o[n \div 2] + o[n \div 2 + 1]

\* Lines 43-65: the geometric estimate.
FallbackAngle(img) ==
    IF ~img.loadable THEN 0
    ELSE LET angles == SelectSeq(img.thetas,
                           LAMBDA a : (80 < a /\ a < 100) \/ (260 < a /\ a < 280))
         IN  IF angles = <<>> THEN 0
             ELSE LET avg2 == Median2(angles)
                  IN  IF 170 <= avg2 /\ avg2 <= 190 THEN 90
                      ELSE IF 350 <= avg2 /\ avg2 <= 370 THEN 180
                      ELSE IF 530 <= avg2 /\ avg2 <= 550 THEN 270
                      ELSE 0

\* The slip of treating text without a Rotate: line as a failure.
DetectRotation_NoSignalFallback(osd, img) ==
    LET primary == IF osd.raised THEN [kind |-> "raised", angle |-> 0]
                   ELSE ParseOsd(osd.lines)
    IN  IF primary.kind = "angle" THEN [angle |-> primary.angle, fallback |-> FALSE]
        ELSE [angle |-> FallbackAngle(img), fallback |-> TRUE]

\* detect_rotation: the angle returned, and whether the except branch (the
\* geometric fallback) ran.
DetectRotation(osd, img) ==
    LET primary == IF osd.raised THEN [kind |-> "raised", angle |-> 0]
                   ELSE ParseOsd(osd.lines)
    IN  IF primary.kind = "angle" THEN [angle |-> primary.angle, fallback |-> FALSE]
        ELSE IF primary.kind = "none" THEN [angle |-> 0, fallback |-> FALSE]
        ELSE [angle |-> FallbackAngle(img), fallback |-> TRUE]

----------------------------------------------------------------------------
\* main(), lines 164-206.

\* The slip of matching the extension case-sensitively.
ListPdfFiles_CaseSensitive(cfg, entries) ==
    LET names == SelectSeq(entries,
                     LAMBDA e : Len(e.name) > 0 /\ e.name[Len(e.name)] = ".pdf")
    IN  [k \in 1..Len(names) |-> JoinPath(cfg.input_dir, names[k].name)]

\* pdf_files: the listed names that end in .pdf once lower-cased, joined to
\* the input directory, in listing order.
ListPdfFiles(cfg, entries) ==
    LET names == SelectSeq(entries, LAMBDA e : EndsWithPdf(e.name))
    IN  [k \in 1..Len(names) |-> JoinPath(cfg.input_dir, names[k].name)]

\* The state of a task as apply_async queues it.  stages (the stages run on
\* the last page), assembled (the pages images_to_pdf composed), created,
\* touched, recognized, attempted, removed, rmfailed, fault and reported
\* record what process_file did, for the properties.
NewTask(pdf_file) ==
    [pdf_file |-> pdf_file, state |-> "PENDING",
     images |-> <<>>, page |-> 0, preprocessed_images |-> <<>>,
     stages |-> <<>>, assembled |-> <<>>,
     temp_files |-> <<>>, working_pdf |-> NoPath,
     preprocessed_pdf |-> NoPath, output_pdf |-> NoPath,
     ntemp |-> 0, created |-> {}, touched |-> {},
     recognized |-> FALSE,
     attempted |-> <<>>, removed |-> {}, rmfailed |-> {},
     fault |-> "none", reported |-> "none"]

\* Tasks a pool worker is executing.
Running(ts) == {i \in DOMAIN ts : ts[i].state \notin Terminal \cup {"PENDING"}}

\* The slip of starting every queued task at once.
PoolHasIdleWorker_Unbounded(ts, cfg) == TRUE

\* The slip of running the batch on a single worker whatever --workers says.
PoolHasIdleWorker_Single(ts, cfg) == Cardinality(Running(ts)) < 1

\* Pool(processes=config.workers): a queued task starts when a worker is idle.
PoolHasIdleWorker(ts, cfg) == Cardinality(Running(ts)) < cfg.workers

\* The slip of not waiting for the result.
WaitReturns_NoWait(ts, k) == TRUE

\* r.wait() returns once the task's result is ready.
WaitReturns(ts, k) == ts[k].state \in Terminal

\* The slip of advancing by two.
Advance_Twice(p) == p + 2

\* progress.advance(task)
Advance(p) == p + 1

\* Lines 164-185: validate the directories and gather the documents.
MainDiscover ==
    /\ mainPc = "start"
    /\ IF config.input_dir \notin dirs
       THEN /\ mainPc' = "exit1"
            /\ UNCHANGED <<dirs, pdf_files>>
       ELSE /\ dirs' = dirs \cup {config.output_dir}
            /\ pdf_files' = ListPdfFiles(config, listing)
            /\ mainPc' = IF pdf_files' = <<>> THEN "exit0" ELSE "submitting"
    /\ UNCHANGED <<hung, call, config, fs, listing, tasks, waitIdx, progress>>

\* Lines 199-202: one apply_async per document, in list order.
SubmitTask ==
    /\ mainPc = "submitting"
    /\ Len(tasks) < Len(pdf_files)
    /\ tasks' = Append(tasks, NewTask(pdf_files[Len(tasks) + 1]))
    /\ mainPc' = IF Len(tasks') = Len(pdf_files) THEN "waiting" ELSE "submitting"
    /\ UNCHANGED <<hung, call, config, dirs, fs, listing, pdf_files, waitIdx, progress>>

\* Lines 203-205: wait for the next result, then advance the progress bar.
MainWait ==
    /\ mainPc = "waiting"
    /\ waitIdx <= Len(tasks)
    /\ WaitReturns(tasks, waitIdx)
    /\ progress' = Advance(progress)
    /\ waitIdx' = waitIdx + 1
    /\ UNCHANGED <<hung, call, config, dirs, fs, listing, mainPc, pdf_files, tasks>>

\* Line 206: the pool block is left and main returns.
MainReturn ==
    /\ mainPc = "waiting"
    /\ waitIdx > Len(tasks)
    /\ mainPc' = "returned"
    /\ UNCHANGED <<hung, call, config, dirs, fs, listing, pdf_files, tasks, waitIdx, progress>>

----------------------------------------------------------------------------
\* process_file, lines 26-69, one action per stage.

\* Lines 67-69: the exception is caught inside the task: only this task's
\* record changes.  t is the task as the failing call left it.
HandleException(ts, i, t, cause) ==
    [ts EXCEPT ![i] = [t EXCEPT !.state = "FAILED", !.fault = cause,
                                !.reported = "error"]]

\* The slip of rasterizing whatever the configuration says.
FirstStage_Always(cfg) == "RASTERIZING"

\* Line 36: the first stage of a task.
FirstStage(cfg) == IF cfg.enable_preprocessing THEN "RASTERIZING" ELSE "RECOGNIZING"

\* Lines 32-36: a worker takes the oldest queued task.
StartTask(i) ==
    /\ tasks[i].state = "PENDING"
    /\ \A j \in 1..(i - 1) : tasks[j].state # "PENDING"
    /\ PoolHasIdleWorker(tasks, config)
    /\ tasks' = [tasks EXCEPT ![i] =
                    [@ EXCEPT !.state = FirstStage(config),
                              !.working_pdf = tasks[i].pdf_file]]
    /\ UNCHANGED <<hung, call, config, dirs, fs, listing, mainPc, pdf_files, waitIdx, progress>>

\* Line 38: pdf_to_images.
Rasterize(i) ==
    /\ tasks[i].state = "RASTERIZING"
    /\ \E last \in {"image", "bad", "raise"} :
         LET t == tasks[i]
             r == PdfToImages(fs, t.pdf_file, i, t.ntemp, last)
             t2 == [t EXCEPT !.ntemp = @ + Cardinality(r.made),
                             !.created = @ \cup r.made,
                             !.touched = @ \cup r.made]
         IN  /\ fs' = r.fs
             /\ tasks' = IF r.raised
                         THEN HandleException(tasks, i, t2,
                                  IF r.made = {} THEN "unreadable" ELSE "save")
                         ELSE [tasks EXCEPT ![i] =
                                  [t2 EXCEPT !.images = r.image_files,
                                             !.state = "PREPROCESSING"]]
    /\ UNCHANGED <<hung, call, config, dirs, listing, mainPc, pdf_files, waitIdx, progress>>

\* The slip of passing deskew=True whatever the configuration says.
PreprocessArgs_DeskewAlways(cfg) ==
    [deskew |-> TRUE, denoise |-> cfg.denoise, auto_rotate |-> TRUE]

\* Lines 43-48: the keyword arguments process_file hands to preprocess_image.
PreprocessArgs(cfg) ==
    [deskew |-> cfg.deskew, denoise |-> cfg.denoise, auto_rotate |-> TRUE]

\* Lines 41-49: one iteration of the page loop.
PreprocessPage(i) ==
    /\ tasks[i].state = "PREPROCESSING"
    /\ tasks[i].page < Len(tasks[i].images)
    /\ \E angle \in DetectedAngles, rotW \in Written, outW \in Written :
         LET t == tasks[i]
             image_file == t.images[t.page + 1]
             r == ProcessSingleImage(fs, image_file, i, t.ntemp, angle, rotW, outW)
             a == PreprocessArgs(config)
             t2 == [t EXCEPT !.stages = PageStages(~r.raised, a.deskew, a.denoise,
                                                   a.auto_rotate),
                             !.ntemp = @ + Cardinality(r.made),
                             !.created = @ \cup r.made,
                             !.touched = @ \cup r.made]
         IN  /\ fs' = r.fs
             /\ tasks' = IF r.raised
                         THEN HandleException(tasks, i, t2, "imread")
                         ELSE [tasks EXCEPT ![i] =
                                  [t2 EXCEPT !.preprocessed_images = Append(@, r.path),
                                             !.temp_files = @ \o <<r.path, image_file>>,
                                             !.page = @ + 1]]
    /\ UNCHANGED <<hung, call, config, dirs, listing, mainPc, pdf_files, waitIdx, progress>>

\* Lines 50-51: the loop is over; the name of the reassembled document.
EndPageLoop(i) ==
    /\ tasks[i].state = "PREPROCESSING"
    /\ tasks[i].page = Len(tasks[i].images)
    /\ tasks' = [tasks EXCEPT ![i] =
                    [@ EXCEPT !.preprocessed_pdf = PreprocessedPath(tasks[i].pdf_file),
                              !.state = "ASSEMBLING"]]
    /\ UNCHANGED <<hung, call, config, dirs, fs, listing, mainPc, pdf_files, waitIdx, progress>>

\* Lines 52-54: images_to_pdf, then the document is recorded.
Assemble(i) ==
    /\ tasks[i].state = "ASSEMBLING"
    /\ LET t == tasks[i]
           r == ImagesToPdf(fs, t.preprocessed_images, t.preprocessed_pdf)
       IN  /\ fs' = r.fs
           /\ tasks' = IF r.raised
                       THEN HandleException(tasks, i, t, "assembly")
                       ELSE [tasks EXCEPT ![i] =
                                [t EXCEPT !.assembled = r.pages,
                                          !.working_pdf = t.preprocessed_pdf,
                                          !.temp_files = Append(@, t.preprocessed_pdf),
                                          !.created = @ \cup {t.preprocessed_pdf},
                                          !.touched = @ \cup {t.preprocessed_pdf},
                                          !.state = "RECOGNIZING"]]
    /\ UNCHANGED <<hung, call, config, dirs, listing, mainPc, pdf_files, waitIdx, progress>>

\* Lines 56-66: run_ocr, cleanup_temp_files and the completion message.  Both
\* calls are inside the try block: whatever either raises reaches line 67.
\* The step happens when the engine's call returns: for a task in hung it
\* never does.
Recognize(i) ==
    /\ tasks[i].state = "RECOGNIZING"
    /\ i \notin hung
    /\ \E engineOk \in BOOLEAN, bad \in BadSets(tasks[i].temp_files) :
         LET t == [tasks[i] EXCEPT !.output_pdf = OutputPath(config, tasks[i].pdf_file)]
             r == RunOcr(fs, t.working_pdf, t.output_pdf, engineOk)
             c == CleanupTempFiles(r.fs, t.temp_files, bad)
             t2 == [t EXCEPT !.touched = @ \cup {t.output_pdf} \cup c.removed,
                             !.recognized = TRUE,
                             !.attempted = c.attempted,
                             !.removed = c.removed,
                             !.rmfailed = c.failed]
         IN  IF r.raised
             THEN /\ fs' = r.fs
                  /\ tasks' = HandleException(tasks, i, t,
                                  IF ReadablePdf(fs, t.working_pdf)
                                  THEN "engine" ELSE "unreadable")
             ELSE /\ fs' = c.fs
                  /\ tasks' = IF c.raised
                              THEN HandleException(tasks, i, t2, "cleanup")
                              ELSE [tasks EXCEPT ![i] =
                                       [t2 EXCEPT !.reported = "completed",
                                                  !.state = "DONE"]]
    /\ UNCHANGED <<hung, call, config, dirs, listing, mainPc, pdf_files, waitIdx, progress>>

Next ==
    \/ MainDiscover
    \/ SubmitTask
    \/ MainWait
    \/ MainReturn
    \/ \E i \in DOMAIN tasks : StartTask(i)
    \/ \E i \in DOMAIN tasks : Rasterize(i)
    \/ \E i \in DOMAIN tasks : PreprocessPage(i)
    \/ \E i \in DOMAIN tasks : EndPageLoop(i)
    \/ \E i \in DOMAIN tasks : Assemble(i)
    \/ \E i \in DOMAIN tasks : Recognize(i)

Spec == Init /\ [][Next]_vars

\* Every external call returns and the OS keeps scheduling main and the pool
\* workers: a step that can be taken is eventually taken.
LiveSpec == Init /\ [][Next]_vars /\ WF_vars(Next)

\* A batch, with its output in a directory of its own, in which the engine
\* never returns for the first or for the second task submitted.  Everything
\* else keeps being scheduled.
HangInit ==
    /\ BatchInit({c \in Configs : c.output_dir = "out"}, InputListings)
    /\ hung \in {{1}, {2}}
    /\ call = NoCall

HangSpec == HangInit /\ [][Next]_vars /\ WF_vars(Next)

----------------------------------------------------------------------------
\* Direct calls of library functions, as the unit tests make them.

BatchVars == <<config, dirs, fs, listing, mainPc, pdf_files, tasks, waitIdx, progress>>

\* A call that has been made and has not returned yet.
Called(fn, arg) == [fn |-> fn, pc |-> "called", arg |-> arg, result |-> <<>>]

DetectRotationCalls ==
    {Called("detect_rotation", [osd |-> o, img |-> g]) :
        o \in OsdOutcomes, g \in FallbackImages}

DetectRotationCall ==
    /\ call.fn = "detect_rotation"
    /\ call.pc = "called"
    /\ call' = [call EXCEPT !.pc = "returned",
                            !.result = DetectRotation(call.arg.osd, call.arg.img)]
    /\ UNCHANGED <<hung, BatchVars>>

\* _process_single_image(image_path, deskew, denoise, auto_rotate)
ProcessSingleImageCalls ==
    {Called("_process_single_image",
            [loadable |-> l, deskew |-> ds, denoise |-> dn, auto_rotate |-> ar]) :
        l \in BOOLEAN, ds \in BOOLEAN, dn \in BOOLEAN, ar \in BOOLEAN}

ProcessSingleImageCall ==
    /\ call.fn = "_process_single_image"
    /\ call.pc = "called"
    /\ call' = [call EXCEPT !.pc = "returned",
                            !.result = PageStages(call.arg.loadable, call.arg.deskew,
                                                  call.arg.denoise, call.arg.auto_rotate)]
    /\ UNCHANGED <<hung, BatchVars>>

\* Config(**kwargs): every keyword left out or passed, with values other than
\* the defaults; the numbers include values OCRmyPDF and Pool do not accept.
ConfigKwargs ==
    {Kwargs(passed, val) :
        passed \in SUBSET ConfigKeys,
        val \in [input_dir : {"in"}, output_dir : {"out"},
                 workers : {PyInt(8), PyInt(0), PyFloat(25)},
                 enable_preprocessing : {FALSE}, deskew : {FALSE},
                 denoise : {FALSE},
                 optimize_level : {PyInt(2), PyInt(7)},
                 pdf_dpi : {PyInt(600), PyInt(-72)},
                 verbose : {TRUE}]}

ConfigCalls == {Called("Config", kw) : kw \in ConfigKwargs}

ConfigCall ==
    /\ call.fn = "Config"
    /\ call.pc = "called"
    /\ call' = [call EXCEPT !.pc = "returned", !.result = ConfigInit(call.arg)]
    /\ UNCHANGED <<hung, BatchVars>>

\* rotate_image(image_path, angle) on a storage that holds another file and,
\* at image_path, an image, an undecodable file or nothing; the name
\* NamedTemporaryFile would hand out does not exist yet.
RotateImageCalls ==
    LET image_path == JoinPath("in", <<"page", ".png">>)
        other == JoinPath("in", <<"other", ".png">>)
        f0 == WriteFile(<<>>, other, Content("image", 0))
    IN  {Called("rotate_image",
                [fs |-> f, image_path |-> image_path, angle |-> angle,
                 new_path |-> TempPath(0, 1), written |-> w]) :
            f \in {f0, WriteFile(f0, image_path, Content("image", 0)),
                       WriteFile(f0, image_path, Content("bad", 0))},
            angle \in {0, 90, 180, 270, 45, 315, -90},
            w \in Written}

RotateImageCall ==
    /\ call.fn = "rotate_image"
    /\ call.pc = "called"
    /\ call' = [call EXCEPT !.pc = "returned",
                            !.result = RotateImage(call.arg.fs, call.arg.image_path,
                                                   call.arg.angle, call.arg.new_path,
                                                   call.arg.written)]
    /\ UNCHANGED <<hung, BatchVars>>

\* The deskew stage on an image with or without foreground, for every angle
\* of the bounding rectangle from -90 to 90 degrees.
DeskewCalls ==
    {Called("deskew", [foreground |-> fg, a |-> a]) :
        fg \in BOOLEAN, a \in -90..90}

DeskewCall ==
    /\ call.fn = "deskew"
    /\ call.pc = "called"
    /\ call' = [call EXCEPT !.pc = "returned",
                            !.result = DeskewRotation(call.arg.foreground, call.arg.a)]
    /\ UNCHANGED <<hung, BatchVars>>

\* run_ocr_batch and preprocess_images_concurrent: a ProcessPoolExecutor, one
\* future per item, results taken with as_completed.  ok[k] tells whether the
\* work on item k succeeds (the engine, or _process_single_image).

BatchOcrCalls ==
    {Called("run_ocr_batch", [ok |-> o, max_workers |-> w, show_progress |-> sp]) :
        o \in SeqsUpTo(BOOLEAN, MaxBatch), w \in 1..MaxWorkers, sp \in BOOLEAN}

ConcurrentPreprocessCalls ==
    {Called("preprocess_images_concurrent", [ok |-> o, max_workers |-> w]) :
        o \in SeqsUpTo(BOOLEAN, MaxBatch), w \in 1..MaxWorkers}

IsExecutorCall == call.fn \in {"run_ocr_batch", "preprocess_images_concurrent"}

\* The path _process_single_image returns for the k-th image.
ProcessedPath(k) == TempPath(k, 1)

\* The executor right after every item has been submitted.  runs counts the
\* times the work on an item was started, collected lists the futures in the
\* order as_completed yielded them.
Submitted(n) ==
    [futures |-> [k \in 1..n |-> "queued"], runs |-> [k \in 1..n |-> 0],
     collected |-> <<>>, results |-> <<>>, logged |-> {}, raised |-> FALSE]

\* The slip of letting a task's exception leave the loop.
OcrFutureResult_Raise(r, k, ok) ==
    [r EXCEPT !.collected = Append(@, k), !.raised = ~ok]

\* run_ocr_batch, lines 92-97 and 100-105 (the same body with and without the
\* progress bar): future.result() returns, or raises and is logged.
OcrFutureResult(r, k, ok) ==
    [r EXCEPT !.collected = Append(@, k),
              !.logged = IF ok THEN @ ELSE @ \cup {k}]

\* The slip of keeping a path for an image whose processing failed.
ImageFutureResult_KeepFailed(r, k, ok) ==
    [r EXCEPT !.collected = Append(@, k),
              !.results = Append(@, ProcessedPath(k)),
              !.logged = IF ok THEN @ ELSE @ \cup {k}]

\* preprocess_images_concurrent, lines 174-182: the processed path is
\* appended, or the exception is logged.
ImageFutureResult(r, k, ok) ==
    [r EXCEPT !.collected = Append(@, k),
              !.results = IF ok THEN Append(@, ProcessedPath(k)) ELSE @,
              !.logged = IF ok THEN @ ELSE @ \cup {k}]

\* executor.submit for every item, in list order.
ExecutorSubmit ==
    /\ IsExecutorCall
    /\ call.pc = "called"
    /\ call' = [call EXCEPT !.pc = "collecting",
                            !.result = Submitted(Len(call.arg.ok))]
    /\ UNCHANGED <<hung, BatchVars>>

\* An idle worker process takes the oldest queued item.
WorkerStart(k) ==
    /\ IsExecutorCall
    /\ call.pc = "collecting"
    /\ k \in DOMAIN call.result.futures
    /\ call.result.futures[k] = "queued"
    /\ \A j \in 1..(k - 1) : call.result.futures[j] # "queued"
    /\ Cardinality({j \in DOMAIN call.result.futures :
                        call.result.futures[j] = "running"}) < call.arg.max_workers
    /\ call' = [call EXCEPT !.result.futures[k] = "running",
                            !.result.runs[k] = @ + 1]
    /\ UNCHANGED <<hung, BatchVars>>

\* The work on item k ends: its future holds a result or an exception.
WorkerFinish(k) ==
    /\ IsExecutorCall
    /\ call.pc = "collecting"
    /\ k \in DOMAIN call.result.futures
    /\ call.result.futures[k] = "running"
    /\ call' = [call EXCEPT !.result.futures[k] =
                                IF call.arg.ok[k] THEN "done" ELSE "failed"]
    /\ UNCHANGED <<hung, BatchVars>>

\* as_completed yields a finished future it has not yielded yet, whichever.
CollectCompleted(k) ==
    /\ IsExecutorCall
    /\ call.pc = "collecting"
    /\ ~call.result.raised
    /\ k \in DOMAIN call.result.futures
    /\ call.result.futures[k] \in {"done", "failed"}
    /\ k \notin Range(call.result.collected)
    /\ call' = [call EXCEPT !.result =
                    IF call.fn = "run_ocr_batch"
                    THEN OcrFutureResult(call.result, k, call.arg.ok[k])
                    ELSE ImageFutureResult(call.result, k, call.arg.ok[k])]
    /\ UNCHANGED <<hung, BatchVars>>

\* as_completed is exhausted, the with block is left and the function returns.
ExecutorReturn ==
    /\ IsExecutorCall
    /\ call.pc = "collecting"
    /\ Len(call.result.collected) = Len(call.arg.ok)
    /\ call' = [call EXCEPT !.pc = "returned"]
    /\ UNCHANGED <<hung, BatchVars>>

\* The direct calls tried: one function, one choice of arguments.
IsFnCall(c) ==
    \/ c \in DetectRotationCalls
    \/ c \in ProcessSingleImageCalls
    \/ c \in ConfigCalls
    \/ c \in RotateImageCalls
    \/ c \in DeskewCalls
    \/ c \in BatchOcrCalls
    \/ c \in ConcurrentPreprocessCalls

\* Either one library function is called directly while main finds no input
\* directory, or main runs on one document of FnPages pages, with every
\* choice of --disable_deskew and --disable_denoise.
FnInit ==
    /\ hung = {}
    /\ \/ /\ IsFnCall(call)
          /\ BatchInit({ConfigInit(MainKwargs("in", "out", 1, TRUE, TRUE, TRUE))}, {})
       \/ /\ call = NoCall
          /\ BatchInit({ConfigInit(MainKwargs("in", "out", 1, TRUE, ds, dn)) :
                           ds \in BOOLEAN, dn \in BOOLEAN},
                       {<<Entry(<<"a", ".pdf">>, Content("original", FnPages))>>})

FnNext ==
    \/ Next
    \/ DetectRotationCall
    \/ ProcessSingleImageCall
    \/ ConfigCall
    \/ RotateImageCall
    \/ DeskewCall
    \/ ExecutorSubmit
    \/ \E k \in 1..MaxBatch : WorkerStart(k)
    \/ \E k \in 1..MaxBatch : WorkerFinish(k)
    \/ \E k \in 1..MaxBatch : CollectCompleted(k)
    \/ ExecutorReturn

FnSpec == FnInit /\ [][FnNext]_vars

----------------------------------------------------------------------------
\* Properties.

TerminalTasks == {i \in DOMAIN tasks : tasks[i].state \in Terminal}
DoneTasks == {i \in DOMAIN tasks : tasks[i].state = "DONE"}
FailedTasks == {i \in DOMAIN tasks : tasks[i].state = "FAILED"}

\* C1: once a task is DONE or FAILED, none of the intermediate artifacts it
\* created (rasterized, rotated and preprocessed page images, the
\* _preprocessed.pdf document) exists on storage any more.
C1_NoArtifactOutlivesTask ==
    \A i \in TerminalTasks : \A p \in tasks[i].created : ~Exists(fs, p)

\* C2: a task never writes or deletes its input document: the preprocessed
\* document path, the output path and every path handed to cleanup_temp_files
\* differ from the input path, and the input path is never written or removed.
C2_InputNeverTouched ==
    \A i \in DOMAIN tasks :
        /\ tasks[i].preprocessed_pdf # tasks[i].pdf_file
        /\ tasks[i].output_pdf # tasks[i].pdf_file
        /\ tasks[i].pdf_file \notin Range(tasks[i].temp_files)
        /\ tasks[i].pdf_file \notin tasks[i].touched

\* A step in which a task fails changes nothing of any other task, of the
\* pool's queue or of main.
C3_IsolationStep ==
    \A i \in DOMAIN tasks :
        (tasks[i].state # "FAILED" /\ tasks'[i].state = "FAILED")
            => /\ DOMAIN tasks' = DOMAIN tasks
               /\ \A j \in DOMAIN tasks \ {i} : tasks'[j] = tasks[j]
               /\ UNCHANGED <<mainPc, waitIdx, progress, pdf_files>>

\* The documents of the batch that cannot be read when the batch starts.
CorruptDocuments ==
    {k \in DOMAIN listing :
        EndsWithPdf(listing[k].name) /\ listing[k].content.kind = "corrupt"}

\* Tasks that failed for a reason other than their document being unreadable:
\* an external call that raised on a readable document.
OtherFaults == {i \in DOMAIN tasks : tasks[i].fault \notin {"none", "unreadable"}}

\* When main has returned from a batch with exactly one unreadable document,
\* and no external call failed on another document, all tasks but one are DONE
\* and one is FAILED.
C3_BatchOutcome ==
    (mainPc = "returned" /\ Cardinality(CorruptDocuments) = 1 /\ OtherFaults = {})
        => /\ Cardinality(DoneTasks) = Len(pdf_files) - 1
           /\ Cardinality(FailedTasks) = 1

\* C3: the failure of one document task is caught inside that task and never
\* aborts the pool or a sibling task; with exactly one unreadable document the
\* batch ends with D-1 tasks DONE and one task FAILED.
C3_FaultIsolation == [][C3_IsolationStep]_vars /\ []C3_BatchOutcome

\* C4: main does not leave the pool block before every submitted task is DONE
\* or FAILED, and with every external call returning main eventually ends: it
\* returns after the pool block, or exits before it (no input directory, no
\* document).
C4_BlockingJoin ==
    /\ [](mainPc = "returned"
            => /\ Len(tasks) = Len(pdf_files)
               /\ TerminalTasks = DOMAIN tasks)
    /\ <>(mainPc \in {"returned", "exit0", "exit1"})

C4_Witness ==
    /\ mainPc = "returned"
    /\ Len(tasks) >= 2
    /\ DoneTasks # {}
    /\ FailedTasks # {}

\* C5: the progress counter is at most the number of terminal tasks, moves
\* only upwards and by one, and equals the number of submitted documents when
\* main returns.
C5_ProgressCounter ==
    /\ [](progress <= Cardinality(TerminalTasks))
    /\ [][progress' \in {progress, progress + 1}]_vars
    /\ [](mainPc = "returned" => progress = Len(pdf_files) /\ progress = Len(tasks))

C5_Witness ==
    /\ mainPc = "returned"
    /\ progress = 3
    /\ DoneTasks # {}
    /\ FailedTasks # {}

NonTerminal == {"PENDING", "RASTERIZING", "PREPROCESSING", "ASSEMBLING", "RECOGNIZING"}

\* PENDING -> RASTERIZING -> PREPROCESSING -> ASSEMBLING -> RECOGNIZING -> DONE
FullChain ==
    {<<"PENDING", "RASTERIZING">>, <<"RASTERIZING", "PREPROCESSING">>,
     <<"PREPROCESSING", "ASSEMBLING">>, <<"ASSEMBLING", "RECOGNIZING">>,
     <<"RECOGNIZING", "DONE">>}

\* PENDING -> RECOGNIZING -> DONE
ShortChain == {<<"PENDING", "RECOGNIZING">>, <<"RECOGNIZING", "DONE">>}

FailureSteps == {<<s, "FAILED">> : s \in NonTerminal}

\* Every change of a task's state is one of the given steps.
StateStepsWithin(steps) ==
    \A i \in DOMAIN tasks :
        tasks'[i].state # tasks[i].state
            => <<tasks[i].state, tasks'[i].state>> \in steps

\* C6 as stated: every task, for every configuration, moves through PENDING,
\* RASTERIZING, PREPROCESSING, ASSEMBLING, RECOGNIZING, DONE in that order with
\* no state skipped, FAILED being entered only from a non-terminal state.
C6_FullChainAlways == [][StateStepsWithin(FullChain \cup FailureSteps)]_vars

\* C6 amended: with preprocessing enabled a task moves through PENDING,
\* RASTERIZING, PREPROCESSING, ASSEMBLING, RECOGNIZING, DONE in that order; with
\* preprocessing disabled it moves PENDING, RECOGNIZING, DONE.  In both cases
\* FAILED is entered only from a non-terminal state, DONE and FAILED are never
\* left, and no state is revisited.
C6_StageOrder ==
    [][StateStepsWithin(
          (IF config.enable_preprocessing THEN FullChain ELSE ShortChain)
              \cup FailureSteps)]_vars

C6_Witness ==
    /\ ~config.enable_preprocessing
    /\ DoneTasks # {}
    /\ FailedTasks # {}

\* C7: main submits one task per discovered document, in list order, none
\* dropped or duplicated, and the tasks being executed never outnumber the
\* configured workers.
C7_OneTaskPerDocument ==
    /\ Cardinality(Running(tasks)) <= config.workers
    /\ Len(tasks) <= Len(pdf_files)
    /\ \A k \in DOMAIN tasks : tasks[k].pdf_file = pdf_files[k]
    /\ \A j, k \in DOMAIN pdf_files : j # k => pdf_files[j] # pdf_files[k]
    /\ mainPc \in {"waiting", "returned"} => Len(tasks) = Len(pdf_files)
    /\ mainPc \notin {"start", "exit1"}
          => Range(pdf_files) =
                {JoinPath(config.input_dir, e.name) :
                     e \in {x \in Range(listing) : EndsWithPdf(x.name)}}

C7_Witness ==
    /\ config.workers = 2
    /\ Cardinality(Running(tasks)) = 2
    /\ \E i \in DOMAIN tasks : tasks[i].state = "PENDING"

\* The next step of the task calls something that can raise.
CanFailNext(t) ==
    \/ t.state \in {"RASTERIZING", "ASSEMBLING", "RECOGNIZING"}
    \/ t.state = "PREPROCESSING" /\ t.page < Len(t.images)

\* C8: every artifact a task has created is in its temp_files list by the
\* time the task can next fail, and so also when it has failed.
C8_EveryArtifactRecorded ==
    \A i \in DOMAIN tasks :
        (CanFailNext(tasks[i]) \/ tasks[i].state = "FAILED")
            => tasks[i].created \subseteq Range(tasks[i].temp_files)

\* Once run_ocr has returned, the task is DONE and reported as completed
\* whatever the removals did, and every recorded path was tried.
C9_Outcome ==
    \A i \in DOMAIN tasks :
        tasks[i].recognized
            => /\ tasks[i].state = "DONE"
               /\ tasks[i].reported = "completed"
               /\ tasks[i].attempted = tasks[i].temp_files
               /\ tasks[i].removed \cup tasks[i].rmfailed = Range(tasks[i].temp_files)

\* When cleanup_temp_files has run, the paths it removed do not exist.
C9_RemovedStep ==
    \A i \in DOMAIN tasks :
        (~tasks[i].recognized /\ tasks'[i].recognized)
            => \A p \in tasks'[i].removed : ~Exists(fs', p)

\* C9: cleanup_temp_files tries every path of its list, goes on after a failed
\* removal and never raises: a task whose recognition succeeded is reported as
\* completed even when removals fail, and a removed path no longer exists.
C9_BestEffortCleanup == []C9_Outcome /\ [][C9_RemovedStep]_vars

C9_Witness ==
    \E i \in DoneTasks :
        /\ Len(tasks[i].temp_files) >= 2
        /\ tasks[i].temp_files[1] \in tasks[i].rmfailed
        /\ tasks[i].temp_files[2] \in tasks[i].removed

\* C10: the paths one task writes or deletes are disjoint from the paths any
\* other task of the batch writes or deletes and from that task's input path.
C10_TasksShareNoPath ==
    \A i, j \in DOMAIN tasks :
        i # j => tasks[i].touched \cap (tasks[j].touched \cup {tasks[j].pdf_file}) = {}

\* The pages images_to_pdf can open, of those handed to it by task i.
ValidPages(i) ==
    SelectSeq(tasks[i].preprocessed_images, LAMBDA p : LoadableImage(fs, p))

\* C11: when no page image handed to images_to_pdf can be opened (the list is
\* empty or every image fails to load) the call raises, the task fails, and
\* storage is left exactly as it was: no output document is created or
\* written.  When some page opens, the document is written with those pages.
C11_AssembleStep ==
    \A i \in DOMAIN tasks :
        (tasks[i].state = "ASSEMBLING" /\ tasks'[i].state # "ASSEMBLING")
            => IF ValidPages(i) = <<>>
               THEN /\ tasks'[i].state = "FAILED"
                    /\ tasks'[i].fault = "assembly"
                    /\ fs' = fs
               ELSE /\ tasks'[i].state = "RECOGNIZING"
                    /\ fs'[tasks[i].preprocessed_pdf] =
                           Content("preprocessed", Len(ValidPages(i)))

C11_AssemblyGuard == [][C11_AssembleStep]_vars

\* A task failed at assembly with every page image undecodable, and no
\* reassembled document exists.
C11_Witness ==
    \E i \in DOMAIN tasks :
        /\ tasks[i].fault = "assembly"
        /\ tasks[i].preprocessed_images # <<>>
        /\ ValidPages(i) = <<>>
        /\ ~Exists(fs, tasks[i].preprocessed_pdf)

RightAngles == {0, 90, 180, 270}

\* C12: whatever the primary detector does (raises, returns text without a
\* Rotate: line, a Rotate: line int() rejects, or any integer on the Rotate:
\* line) and whatever the fallback sees, detect_rotation returns one of 0, 90,
\* 180, 270.
C12_AngleInRange ==
    (call.fn = "detect_rotation" /\ call.pc = "returned")
        => call.result.angle \in RightAngles

\* The stages of s come in the order rank gives them, none twice.
InRankOrder(s, rank) ==
    \A j, k \in DOMAIN s : j < k => rank[s[j]] < rank[s[k]]

PageCallReturned == call.fn = "_process_single_image" /\ call.pc = "returned"

\* The stages a call must run: those that are enabled, when the image loads.
StagesDue(a) ==
    (IF a.auto_rotate THEN {"orientation", "rotation"} ELSE {})
        \cup (IF a.loadable
               THEN {"grayscale", "persist"}
                        \cup (IF a.denoise THEN {"denoise"} ELSE {})
                        \cup (IF a.deskew THEN {"deskew"} ELSE {})
               ELSE {"raise"})

\* C13 as stated: grayscale conversion comes first, then orientation
\* detection with coarse rotation, then denoise, then deskew, then persist; no
\* enabled stage runs before an earlier stage of this order.
C13_GrayscaleFirst ==
    PageCallReturned =>
        InRankOrder(call.result,
                    [grayscale |-> 1, orientation |-> 2, rotation |-> 3,
                     raise |-> 4, denoise |-> 4, deskew |-> 5, persist |-> 6])

\* C13, amended: orientation detection and coarse rotation come first, then
\* the image is loaded and converted to grayscale, then denoise, then deskew,
\* then persist; exactly the enabled stages run, and none before an earlier
\* stage of this order.
C13_PageStageOrder ==
    PageCallReturned =>
        /\ InRankOrder(call.result,
                       [orientation |-> 1, rotation |-> 2, raise |-> 3,
                        grayscale |-> 3, denoise |-> 4, deskew |-> 5, persist |-> 6])
        /\ Range(call.result) = StagesDue(call.arg)

\* A page went through every stage.
C13_Witness ==
    /\ PageCallReturned
    /\ call.arg.auto_rotate /\ call.arg.denoise /\ call.arg.deskew
    /\ Len(call.result) = 6

\* The input directory exists.
InputDirExists == config.input_dir \in dirs

\* The listed names that end in .pdf in any letter case (the model's names
\* spell the extension ".pdf" or ".PDF").
EligibleEntries ==
    {k \in DOMAIN listing :
        listing[k].name # <<>>
            /\ listing[k].name[Len(listing[k].name)] \in {".pdf", ".PDF"}}

\* C14: main exits with code 1, before any task is submitted, exactly when the
\* input directory does not exist; it exits with code 0 without processing
\* any document exactly when the directory exists and lists no name ending in
\* .pdf (case-insensitively); otherwise it submits the batch and, once every
\* result has been waited for, returns with success whatever number of
\* documents failed.
C14_ExitCodes ==
    /\ mainPc = "exit1" => ~InputDirExists /\ tasks = <<>>
    /\ mainPc = "exit0" =>
           InputDirExists /\ EligibleEntries = {} /\ tasks = <<>> /\ progress = 0
    /\ ~InputDirExists => mainPc \in {"start", "exit1"}
    /\ (InputDirExists /\ EligibleEntries = {}) => mainPc \in {"start", "exit0"}
    /\ (InputDirExists /\ EligibleEntries # {}) =>
           mainPc \in {"start", "submitting", "waiting", "returned"}
    /\ (mainPc = "waiting" /\ waitIdx > Len(tasks)) => ENABLED MainReturn
    /\ mainPc = "returned" =>
           /\ Len(tasks) = Cardinality(EligibleEntries)
           /\ waitIdx > Len(tasks)

\* main returned although every document of the batch failed.
C14_Witness ==
    /\ mainPc = "returned"
    /\ tasks # <<>>
    /\ FailedTasks = DOMAIN tasks

\* name.pdf without its extension, whatever the letter case of the extension.
Stem(name) == SubSeq(name, 1, Len(name) - 1)

\* C15: for every eligible document name.pdf the engine's output is
\* name_ocr.pdf in the output directory.  With preprocessing enabled the
\* engine reads name_preprocessed.pdf beside the input, which is gone once
\* the task is DONE (unless the OS refused its removal); with preprocessing
\* disabled the engine reads the original and the task creates no
\* intermediate file.
C15_NamingAndModes ==
    \A i \in DOMAIN tasks :
        LET t == tasks[i]
            stem == Stem(t.pdf_file.name)
        IN  /\ t.output_pdf # NoPath =>
                   t.output_pdf = JoinPath(config.output_dir, stem \o <<"_ocr", ".pdf">>)
            /\ config.enable_preprocessing =>
                   /\ t.preprocessed_pdf # NoPath =>
                          t.preprocessed_pdf =
                              JoinPath(config.input_dir, stem \o <<"_preprocessed", ".pdf">>)
                   /\ t.recognized => t.working_pdf = t.preprocessed_pdf
                   /\ (t.state = "DONE" /\ t.rmfailed = {}) =>
                          ~Exists(fs, t.preprocessed_pdf)
            /\ ~config.enable_preprocessing =>
                   /\ t.created = {}
                   /\ t.preprocessed_pdf = NoPath
                   /\ t.working_pdf \in {NoPath, t.pdf_file}

\* C16: run_ocr raises whenever the engine fails (it cannot read its input,
\* or fails on a readable one) and returns normally only after the engine has
\* completed; pdf_to_images raises whenever the document cannot be
\* rasterized.  Neither failure is swallowed: the task that made the call does
\* not go on to its next stage, it fails with that cause.
C16_RaiseStep ==
    \A i \in DOMAIN tasks :
        LET t == tasks[i]
            u == tasks'[i]
        IN  /\ (t.state = "RECOGNIZING" /\ u # t) =>
                   /\ ~ReadablePdf(fs, t.working_pdf) =>
                          u.state = "FAILED" /\ u.fault = "unreadable" /\ fs' = fs
                   /\ u.state = "DONE" =>
                          ReadablePdf(fs, t.working_pdf) /\ u.recognized
                   /\ u.state = "FAILED" =>
                          u.fault \in {"unreadable", "engine", "cleanup"}
                   /\ u.fault = "engine" => ~u.recognized /\ fs' = fs
            /\ (t.state = "RASTERIZING" /\ u # t) =>
                   /\ ~ReadablePdf(fs, t.pdf_file) =>
                          u.state = "FAILED" /\ u.fault = "unreadable"
                   /\ u.state = "PREPROCESSING" => ReadablePdf(fs, t.pdf_file)

C16_FailuresRaise == [][C16_RaiseStep]_vars

\* With preprocessing disabled run_ocr was handed an unreadable document and
\* the task failed; and some task failed on a readable one.
C16_Witness ==
    /\ ~config.enable_preprocessing
    /\ \E i \in DOMAIN tasks :
           tasks[i].state = "FAILED" /\ tasks[i].fault = "unreadable"
    /\ \E i \in DOMAIN tasks :
           tasks[i].state = "FAILED" /\ tasks[i].fault = "engine"

\* Tasks whose engine call has been made and will never return.
HungTasks == {i \in hung \cap DOMAIN tasks : tasks[i].state = "RECOGNIZING"}

\* Main is past submission (or has exited) and every task but the hung ones
\* is DONE or FAILED.
OthersSettled ==
    \/ mainPc \in {"exit0", "exit1"}
    \/ /\ mainPc \in {"waiting", "returned"}
       /\ Len(tasks) = Len(pdf_files)
       /\ \A i \in (DOMAIN tasks) \ hung : tasks[i].state \in Terminal

\* A hung task stays where it is, holding its worker.
HungStaysStep ==
    \A i \in HungTasks : tasks'[i] = tasks[i] /\ i \in Running(tasks')

\* C17: when the engine call of one task never returns and the pool has at
\* least two workers, every other task of the batch is eventually DONE or
\* FAILED (and stays so); the hung task stays in RECOGNIZING and holds one
\* worker slot forever, the workers in use never exceeding --workers.
C17_HangDoesNotStarve ==
    /\ (config.workers >= 2) => <>[]OthersSettled
    /\ [][HungStaysStep]_vars
    /\ [](Cardinality(Running(tasks)) <= config.workers)

\* The first task hangs in the engine while a later task is DONE and every
\* other task is terminal.
C17_Witness ==
    /\ config.workers >= 2
    /\ HungTasks = {1}
    /\ mainPc = "waiting"
    /\ Len(tasks) >= 2
    /\ \A i \in (DOMAIN tasks) \ hung : tasks[i].state \in Terminal
    /\ \E i \in DOMAIN tasks : tasks[i].state = "DONE"

\* Terminal tasks the progress counter has not counted yet.
Uncounted == {i \in TerminalTasks : i >= waitIdx}

\* C18: progress follows completion, not submission: whenever main is
\* waiting and some task is DONE or FAILED but not yet counted, main is able
\* to count it now, even while a task submitted earlier is still running.
C18_ProgressFollowsCompletion ==
    (mainPc = "waiting" /\ Uncounted # {}) => ENABLED MainWait

ConfigReturned == call.fn = "Config" /\ call.pc = "returned"

\* n is the integer Python's int() makes of the number v.
IsIntOf(n, v) ==
    \/ v.type = "int" /\ n = v.val
    \/ v.type = "float" /\ v.val >= 0 /\ 10 * n <= v.val /\ v.val < 10 * (n + 1)
    \/ v.type = "float" /\ v.val < 0 /\ 10 * (n - 1) < v.val /\ v.val <= 10 * n

\* Every keyword passed is stored, the three numbers as integers.
StoresExplicitValues(kw, c) ==
    /\ \A k \in kw.passed \cap {"workers", "optimize_level", "pdf_dpi"} :
           IsIntOf(c[k], kw.val[k])
    /\ \A k \in kw.passed \ {"workers", "optimize_level", "pdf_dpi"} :
           c[k] = kw.val[k]

\* The switches left out take their defaults.
DefaultSwitches(kw, c) ==
    /\ \A k \in {"enable_preprocessing", "deskew", "denoise"} \ kw.passed : c[k] = TRUE
    /\ "verbose" \notin kw.passed => c.verbose = FALSE

\* The ranges the claim gives for the three numbers.
InRanges(c) == c.workers >= 1 /\ c.optimize_level \in 0..3 /\ c.pdf_dpi > 0

\* C19 as stated: a Config stores the values it is given (the three numbers
\* as integers), every Config, default or custom, has workers >= 1,
\* optimize_level in 0..3 and pdf_dpi > 0, the switches default to enabled
\* and verbose to off, and process_file never modifies the Config.
C19_EveryConfigInRange ==
    /\ [](ConfigReturned =>
            /\ StoresExplicitValues(call.arg, call.result)
            /\ DefaultSwitches(call.arg, call.result)
            /\ InRanges(call.result))
    /\ []InRanges(config)
    /\ [][config' = config]_vars

\* C19, amended: a Config stores the values it is given (the three numbers
\* as int() makes them) without validating them: its numbers are in range
\* exactly when the numbers passed are, and the numbers left out default to
\* values in range; the switches default to enabled and verbose to off; the
\* Config main builds is in range and process_file never modifies it.
C19_ConfigStoresUnchecked ==
    /\ [](ConfigReturned =>
            /\ StoresExplicitValues(call.arg, call.result)
            /\ DefaultSwitches(call.arg, call.result)
            /\ InRanges(call.result) <=>
                   /\ "workers" \in call.arg.passed =>
                          IntOf(call.arg.val.workers) >= 1
                   /\ "optimize_level" \in call.arg.passed =>
                          IntOf(call.arg.val.optimize_level) \in 0..3
                   /\ "pdf_dpi" \in call.arg.passed =>
                          IntOf(call.arg.val.pdf_dpi) > 0)
    /\ []InRanges(config)
    /\ [][config' = config]_vars

\* A Config was built with a worker count of zero and stores it.
C19_Witness ==
    /\ ConfigReturned
    /\ "workers" \in call.arg.passed
    /\ call.arg.val.workers = PyInt(0)
    /\ call.result.workers = 0

DetectReturned == call.fn = "detect_rotation" /\ call.pc = "returned"

\* The lines of the primary detector's text that hold "Rotate:".
RotateLines(osd) == {k \in DOMAIN osd.lines : osd.lines[k].key = "Rotate"}
FirstRotateLine(osd) ==
    osd.lines[CHOOSE k \in RotateLines(osd) : \A j \in RotateLines(osd) : k <= j]

\* The shapes of the primary detector's outcome.
EngineError(osd) == osd.raised
NoSignal(osd) == ~osd.raised /\ RotateLines(osd) = {}
Malformed(osd) ==
    ~osd.raised /\ RotateLines(osd) # {} /\ ~FirstRotateLine(osd).value.int
ProducedAngle(osd) ==
    ~osd.raised /\ RotateLines(osd) # {} /\ FirstRotateLine(osd).value.int

\* C20 as stated: the geometric fallback runs exactly when the primary
\* detector fails in one of three shapes (engine error, malformed output, no
\* Rotate: line) and never when the primary detector produced an angle.
C20_FallbackOnThreeShapes ==
    DetectReturned =>
        (call.result.fallback <=>
            (EngineError(call.arg.osd) \/ Malformed(call.arg.osd)
                \/ NoSignal(call.arg.osd)))

\* C20, amended: the geometric fallback runs exactly when the primary
\* detector raises or the value on its first Rotate: line is not an integer;
\* when its text holds no Rotate: line the result is 0 without the fallback,
\* and when it produced an angle the fallback does not run.
C20_FallbackOnException ==
    DetectReturned =>
        /\ call.result.fallback <=>
               (EngineError(call.arg.osd) \/ Malformed(call.arg.osd))
        /\ NoSignal(call.arg.osd) => call.result.angle = 0
        /\ call.result.fallback =>
               call.result.angle = FallbackAngle(call.arg.img)

\* The primary detector returned text without a Rotate: line, the image
\* holds lines the fallback would read as a quarter turn, and the result is 0.
C20_Witness ==
    /\ DetectReturned
    /\ NoSignal(call.arg.osd)
    /\ call.arg.osd.lines # <<>>
    /\ FallbackAngle(call.arg.img) = 90
    /\ ~call.result.fallback
    /\ call.result.angle = 0

\* Tasks whose last page went through the pipeline to the end.
PageProcessed == {i \in DOMAIN tasks : "persist" \in Range(tasks[i].stages)}

\* The switches of a Config that could gate a stage of a page: every switch
\* but enable_preprocessing, which is on whenever a page is processed.
StageSwitches == {"deskew", "denoise", "verbose"}

\* C21 as stated: on every page a task processes, denoise runs iff
\* config.denoise, deskew runs iff config.deskew, and orientation detection
\* with coarse rotation runs iff some switch of the Config is on.
C21_EveryStageGated ==
    \A i \in PageProcessed :
        LET s == Range(tasks[i].stages)
        IN  /\ "denoise" \in s <=> config.denoise
            /\ "deskew" \in s <=> config.deskew
            /\ \E k \in StageSwitches : "orientation" \in s <=> config[k]

\* C21, amended: on every page a task processes, denoise runs iff
\* config.denoise and deskew runs iff config.deskew; orientation detection
\* with coarse rotation runs on every page, whatever the Config holds; a page
\* that cannot be loaded has been through orientation and rotation only.
C21_StageGating ==
    \A i \in DOMAIN tasks :
        LET s == Range(tasks[i].stages)
        IN  /\ i \in PageProcessed =>
                   /\ "denoise" \in s <=> config.denoise
                   /\ "deskew" \in s <=> config.deskew
                   /\ {"orientation", "rotation", "grayscale"} \subseteq s
            /\ (tasks[i].stages # <<>> /\ i \notin PageProcessed) =>
                   tasks[i].stages = <<"orientation", "rotation", "raise">>

\* A page was processed with deskew and denoise switched off; orientation
\* detection ran all the same.
C21_Witness ==
    /\ ~config.deskew /\ ~config.denoise /\ ~config.verbose
    /\ \E i \in PageProcessed :
           tasks[i].stages = <<"orientation", "rotation", "grayscale", "persist">>

\* The position of path p in the sequence s of distinct paths.
IndexIn(s, p) == CHOOSE k \in DOMAIN s : s[k] = p

\* sub holds exactly the members of s that satisfy ok, in the order of s.
IsFilteredInOrder(sub, s, ok(_)) ==
    /\ Range(sub) = {s[k] : k \in {j \in DOMAIN s : ok(s[j])}}
    /\ \A j, k \in DOMAIN sub : j < k => IndexIn(s, sub[j]) < IndexIn(s, sub[k])

\* One step of a task, for C22.
C22_OrderStep ==
    \A i \in DOMAIN tasks :
        LET t == tasks[i]
            u == tasks'[i]
            openable(p) == LoadableImage(fs, p)
        IN  /\ (t.state = "PREPROCESSING" /\ u.page # t.page) =>
                   /\ u.page = t.page + 1
                   /\ Len(u.preprocessed_images) = u.page
                   /\ u.temp_files =
                          t.temp_files \o <<u.preprocessed_images[u.page], t.images[u.page]>>
            /\ (t.state = "ASSEMBLING" /\ u # t) =>
                   IF \E k \in DOMAIN t.preprocessed_images :
                          openable(t.preprocessed_images[k])
                   THEN /\ u.state = "RECOGNIZING"
                        /\ IsFilteredInOrder(u.assembled, t.preprocessed_images, openable)
                        /\ fs'[t.preprocessed_pdf].pages = Len(u.assembled)
                   ELSE u.state = "FAILED"

\* C22: a task preprocesses its pages one at a time in rasterization order
\* (the k-th processed image is made from the k-th rasterized page), and the
\* pages images_to_pdf composes are exactly the processed images that open,
\* in the order of its input list; a page that does not open is dropped and
\* the document still goes on to recognition.
C22_PageOrderKept == [][C22_OrderStep]_vars

\* Of two processed pages the first did not open: the document was composed
\* of the second alone and the task went on.
C22_Witness ==
    \E i \in DOMAIN tasks :
        /\ Len(tasks[i].preprocessed_images) = 2
        /\ tasks[i].assembled = <<tasks[i].preprocessed_images[2]>>
        /\ tasks[i].state = "DONE"

RotateReturned == call.fn = "rotate_image" /\ call.pc = "returned"

\* C23: rotate_image never writes to its input path.  For angle 0 it returns
\* the same path and creates no file; for an angle of 90, 180 or 270 on a
\* loadable image it returns a path that did not exist before, different
\* from the input, and creates only that file; for any other angle or an
\* unloadable image it returns the input path and creates no file.
C23_RotateNeverOverwrites ==
    RotateReturned =>
        LET a == call.arg
            r == call.result
            p == a.image_path
        IN  /\ Exists(r.fs, p) <=> Exists(a.fs, p)
            /\ Exists(a.fs, p) => r.fs[p] = a.fs[p]
            /\ IF a.angle # 0 /\ a.angle \in RightAngles /\ LoadableImage(a.fs, p)
               THEN /\ r.path # p
                    /\ ~Exists(a.fs, r.path)
                    /\ DOMAIN r.fs = (DOMAIN a.fs) \cup {r.path}
                    /\ \A q \in DOMAIN a.fs : r.fs[q] = a.fs[q]
               ELSE r.path = p /\ r.fs = a.fs

\* A loadable image was turned by a quarter: the result is a new file and the
\* input still holds the image.
C23_Witness ==
    /\ RotateReturned
    /\ call.arg.angle = 90
    /\ call.result.path # call.arg.image_path
    /\ LoadableImage(call.result.fs, call.arg.image_path)
    /\ Exists(call.result.fs, call.result.path)

\* C24: for every bounding-rectangle angle a from -90 to 90 degrees the
\* deskew rotation has a magnitude of at most 45 degrees, and an image
\* without a foreground pixel is not rotated at all.
C24_DeskewIsFine ==
    (call.fn = "deskew" /\ call.pc = "returned") =>
        /\ call.result.rotated =>
               (-45 <= call.result.angle /\ call.result.angle <= 45)
        /\ ~call.arg.foreground => ~call.result.rotated

\* The items of an executor call whose work succeeds, and those it fails on.
Succeeding == {k \in DOMAIN call.arg.ok : call.arg.ok[k]}
Failing == {k \in DOMAIN call.arg.ok : ~call.arg.ok[k]}

\* C25: run_ocr_batch starts the engine at most once for a task, never
\* raises because a task failed, and when it returns the engine has run
\* exactly once for every task, every task has finished, and exactly the
\* failed tasks were logged; with or without the progress bar.
C25_BatchOcrRunsAll ==
    (call.fn = "run_ocr_batch" /\ call.pc # "called") =>
        LET r == call.result
        IN  /\ ~r.raised
            /\ \A k \in DOMAIN r.runs : r.runs[k] <= 1
            /\ r.logged \subseteq Failing
            /\ call.pc = "returned" =>
                   /\ DOMAIN r.runs = DOMAIN call.arg.ok
                   /\ \A k \in DOMAIN r.runs :
                          r.runs[k] = 1 /\ r.futures[k] \in {"done", "failed"}
                   /\ r.logged = Failing

\* run_ocr_batch returned, without the progress bar, after the first of two
\* tasks failed and the second completed.
C25_Witness ==
    /\ call.fn = "run_ocr_batch"
    /\ call.pc = "returned"
    /\ ~call.arg.show_progress
    /\ call.arg.ok = <<FALSE, TRUE>>
    /\ call.result.logged = {1}
    /\ call.result.runs[2] = 1

PreprocessReturned ==
    call.fn = "preprocess_images_concurrent" /\ call.pc = "returned"

\* The indices of s that satisfy ok, in increasing order, as a sequence.
RECURSIVE IndicesInOrder(_, _)
IndicesInOrder(n, S) ==
    IF n = 0 THEN <<>>
    ELSE IndicesInOrder(n - 1, S) \o (IF n \in S THEN <<n>> ELSE <<>>)

\* C26 as stated: preprocess_images_concurrent returns one path for each
\* image whose processing succeeded and none for a failed one, the i-th path
\* being that of the i-th successful image in the order of image_paths.
C26_ResultsInInputOrder ==
    PreprocessReturned =>
        LET inOrder == IndicesInOrder(Len(call.arg.ok), Succeeding)
        IN  call.result.results = [j \in DOMAIN inOrder |-> ProcessedPath(inOrder[j])]

\* C26, amended: preprocess_images_concurrent returns, after every worker
\* has finished, one path for each image whose processing succeeded and none
\* for a failed one (logged, not raised); the paths come in the order in
\* which as_completed yielded the futures, not in the order of image_paths.
C26_ResultsInCompletionOrder ==
    PreprocessReturned =>
        LET r == call.result
            yielded == SelectSeq(r.collected, LAMBDA k : call.arg.ok[k])
        IN  /\ ~r.raised
            /\ \A k \in DOMAIN r.futures : r.futures[k] \in {"done", "failed"}
            /\ Range(r.collected) = DOMAIN call.arg.ok
            /\ Len(r.collected) = Len(call.arg.ok)
            /\ r.results = [j \in DOMAIN yielded |-> ProcessedPath(yielded[j])]
            /\ Len(r.results) = Cardinality(Succeeding)
            /\ r.logged = Failing

\* Two images were processed and the path of the second comes first.
C26_Witness ==
    /\ PreprocessReturned
    /\ call.arg.ok = <<TRUE, TRUE>>
    /\ call.result.results = <<ProcessedPath(2), ProcessedPath(1)>>

====
